---- MODULE Spec2Model ----
(***************************************************************************)
(* Model of scripts/convert_xfractint_maps.py: the .map parser, the        *)
(* palette resampler, the Rust constant name derivation and main's loop.   *)
(*                                                                         *)
(* Python floats are IEEE-754 binary64.  A non-negative float is modelled  *)
(* exactly as a record [ip, fl]: integer part ip and the fraction fl as    *)
(* limbs of LimbBits bits after the binary point.                          *)
(* Every float operation of the source computes the exact result and       *)
(* rounds it to Precision significant bits, ties to even, as the hardware  *)
(* does.                                                                   *)
(***************************************************************************)
EXTENDS Integers, Sequences, FiniteSets, TLC

\* Significant bits of a binary64 mantissa (Python float).
Precision == 53

\* Fraction bits are kept LimbBits at a time: a float is [ip, fl] with value
\* ip + fl[1]/Base + fl[2]/Base^2 + ..., every limb in 0..Base-1 and the
\* last limb nonzero.
LimbBits == 10
Base == 2 ^ LimbBits

\* ------------------------------------------------------------------------
\* binary64 arithmetic
\* ------------------------------------------------------------------------

\* Number of bits of a non-negative int.
BitLen(k) == IF k = 0 THEN 0 ELSE CHOOSE b \in 1..31 : 2 ^ (b - 1) <= k /\ (b = 31 \/ k < 2 ^ b)

\* Drop trailing zero limbs.
Trim(limbs) ==
  LET nz == {j \in 1..Len(limbs) : limbs[j] # 0}
  IN  IF nz = {} THEN <<>>
      ELSE SubSeq(limbs, 1, CHOOSE j \in nz : \A m \in nz : m <= j)

\* Zero bits in front of the first 1 bit of a nonzero fraction.
LeadingZeros(limbs) ==
  LET nz == {j \in 1..Len(limbs) : limbs[j] # 0}
      j0 == CHOOSE j \in nz : \A m \in nz : j <= m
  IN  (j0 - 1) * LimbBits + (LimbBits - BitLen(limbs[j0]))

\* The float built from an int (int -> float conversion, exact below 2^53).
FloatOfInt(k) == [ip |-> k, fl |-> <<>>]

\* The rounding step of RoundToDouble: the fraction is cut inside limb jc,
\* whose kept bits are top and whose last kept bit weighs unit (Base when no
\* bit of the limb is kept); up tells whether unit is added.
RoundCut(ip, fl, jc, unit, top, up) ==
  LET \* carry out of limb j + 1
      carry(j) == up /\ top + unit >= Base
                     /\ \A m \in (j + 1)..(jc - 1) : fl[m] = Base - 1
  IN  [ip |-> IF carry(0) THEN ip + 1 ELSE ip,
       fl |-> Trim([j \in 1..jc |->
                      IF j = jc THEN (IF up THEN (top + unit) % Base ELSE top)
                      ELSE IF carry(j) THEN (fl[j] + 1) % Base ELSE fl[j]])]

\* Round-half-to-even where low is the part of limb jc below the cut.
RoundHalfEven(ip, fl, sticky, jc, unit, low) ==
  RoundCut(ip, fl, jc, unit, fl[jc] - low,
    /\ low >= unit \div 2
    /\ \/ sticky
       \/ low % (unit \div 2) # 0
       \/ \E j \in (jc + 1)..Len(fl) : fl[j] # 0
       \/ IF unit < Base THEN ((fl[jc] - low) \div unit) % 2 = 1
          ELSE IF jc > 1 THEN fl[jc - 1] % 2 = 1
          ELSE ip % 2 = 1)

\* Keep the first keep fraction bits.
RoundKeep(ip, fl, sticky, keep) ==
  IF Len(fl) * LimbBits <= keep
  THEN [ip |-> ip, fl |-> Trim(fl)]
  ELSE RoundHalfEven(ip, fl, sticky, keep \div LimbBits + 1,
                     2 ^ (LimbBits - (keep % LimbBits)),
                     fl[keep \div LimbBits + 1] % (2 ^ (LimbBits - (keep % LimbBits))))

\* Round the exact value ip.fl (plus something nonzero below the last limb
\* when sticky) to Precision significant bits, round-half-to-even.
RoundToDouble(ip, fl, sticky) ==
  IF ip = 0 /\ \A j \in 1..Len(fl) : fl[j] = 0 THEN [ip |-> 0, fl |-> <<>>]
  ELSE RoundKeep(ip, fl, sticky,
                 IF ip > 0 THEN Precision - BitLen(ip)
                 ELSE LeadingZeros(fl) + Precision)

\* Limbs a quotient needs from its first nonzero limb on, so that the guard
\* bit after Precision significant bits is among them.
QuotientLimbs == Precision \div LimbBits + 2

\* Long division of the remaining limbs by d: r is the running remainder,
\* acc the quotient limbs so far, cnt the quotient limbs since the first
\* nonzero one.
RECURSIVE DivLimbs(_, _, _, _, _, _)
DivLimbs(ip, rest, r, d, acc, cnt) ==
  IF cnt >= QuotientLimbs \/ (rest = <<>> /\ r = 0)
  THEN RoundToDouble(ip, acc, r # 0 \/ \E j \in 1..Len(rest) : rest[j] # 0)
  ELSE LET v  == r * Base + (IF rest = <<>> THEN 0 ELSE rest[1])
           q  == v \div d
           tl == IF rest = <<>> THEN <<>> ELSE Tail(rest)
       IN  DivLimbs(ip, tl, v % d, d, Append(acc, q),
                    IF cnt > 0 \/ q > 0 THEN cnt + 1 ELSE 0)

\* x / d for a float x and a positive int d (Python's true division).
FloatDiv(x, d) ==
  DivLimbs(x.ip \div d, x.fl, x.ip % d, d, <<>>,
           IF x.ip \div d > 0 THEN 1 ELSE 0)

\* Multiply the limbs by k from the last limb upwards; the result is
\* <<carry into the integer part, product limbs>>.
RECURSIVE MulLimbs(_, _, _, _)
MulLimbs(limbs, k, carry, acc) ==
  IF limbs = <<>> THEN <<carry, acc>>
  ELSE LET v == limbs[Len(limbs)] * k + carry
       IN  MulLimbs(SubSeq(limbs, 1, Len(limbs) - 1), k, v \div Base,
                    <<v % Base>> \o acc)

\* The exact product x * k (not rounded), k a non-negative int.
ExactMul(x, k) ==
  LET p == MulLimbs(x.fl, k, 0, <<>>)
  IN  [ip |-> x.ip * k + p[1], fl |-> Trim(p[2])]

\* x * k for a float x and a non-negative int k.
FloatMul(x, k) ==
  LET p == ExactMul(x, k)
  IN  RoundToDouble(p.ip, p.fl, FALSE)

\* c + x for a non-negative int c and a float x.
FloatAdd(c, x) == RoundToDouble(c + x.ip, x.fl, FALSE)

\* c - x for an int c and a float x with x <= c: the fraction is replaced
\* by its complement to 1 (the last limb is nonzero).
FloatSub(c, x) ==
  IF x.fl = <<>> THEN [ip |-> c - x.ip, fl |-> <<>>]
  ELSE RoundToDouble(c - x.ip - 1,
         [j \in 1..Len(x.fl) |-> IF j = Len(x.fl) THEN Base - x.fl[j]
                                 ELSE Base - 1 - x.fl[j]],
         FALSE)

\* int(x): truncation of a non-negative float.
FloatToInt(x) == x.ip

\* x - int(x) (exact in binary64).
FloatFrac(x) == [ip |-> 0, fl |-> x.fl]

\* The decimal digits round(x, 3) keeps: x * 1000 rounded half-to-even on
\* the exact binary value (CPython formats with correctly rounded dtoa).
RoundMilli(x) ==
  LET p    == ExactMul(x, 1000)
      half == Base \div 2
      ge   == p.fl # <<>> /\ p.fl[1] >= half
      more == p.fl # <<>> /\ (p.fl[1] % half # 0 \/ Len(p.fl) > 1)
  IN  IF ge /\ (more \/ p.ip % 2 = 1) THEN p.ip + 1 ELSE p.ip

\* round(x, 3): the float nearest to the 3-digit decimal.
Round3(x) == FloatDiv(FloatOfInt(RoundMilli(x)), 1000)

\* ------------------------------------------------------------------------
\* Strings are sequences of one-character strings.
\* ------------------------------------------------------------------------

Digits == <<"0", "1", "2", "3", "4", "5", "6", "7", "8", "9">>
Lower  == <<"a", "b", "c", "d", "e", "f", "g", "h", "i", "j", "k", "l", "m",
            "n", "o", "p", "q", "r", "s", "t", "u", "v", "w", "x", "y", "z">>
Upper  == <<"A", "B", "C", "D", "E", "F", "G", "H", "I", "J", "K", "L", "M",
            "N", "O", "P", "Q", "R", "S", "T", "U", "V", "W", "X", "Y", "Z">>

Range(f) == {f[j] : j \in DOMAIN f}
IndexOf(c, tbl) == CHOOSE j \in DOMAIN tbl : tbl[j] = c

Min(a, b) == IF a < b THEN a ELSE b
Max(a, b) == IF a > b THEN a ELSE b

\* str.isspace for the characters of a text line.
IsSpace(c) == c \in {" ", "\t", "\n", "\r"}

\* line.strip()
Strip(s) ==
  LET ns == {j \in 1..Len(s) : ~IsSpace(s[j])}
  IN  IF ns = {} THEN <<>>
      ELSE SubSeq(s, CHOOSE j \in ns : \A m \in ns : j <= m,
                     CHOOSE j \in ns : \A m \in ns : m <= j)

\* The maximal runs of characters of s outside seps, in order.
SplitBy(s, seps) ==
  LET starts == {j \in 1..Len(s) : s[j] \notin seps /\ (j = 1 \/ s[j - 1] \in seps)}
      start(k) == CHOOSE j \in starts : Cardinality({m \in starts : m <= j}) = k
      stop(j)  == CHOOSE e \in j..Len(s) :
                    /\ \A m \in j..e : s[m] \notin seps
                    /\ (e = Len(s) \/ s[e + 1] \in seps)
  IN  [k \in 1..Cardinality(starts) |-> SubSeq(s, start(k), stop(start(k)))]

\* line.split()
Split(s) == SplitBy(s, {" ", "\t", "\n", "\r"})

\* ------------------------------------------------------------------------
\* parse_map_file
\* ------------------------------------------------------------------------

RECURSIVE DigitsValue(_)
DigitsValue(ds) ==
  IF ds = <<>> THEN 0
  ELSE DigitsValue(SubSeq(ds, 1, Len(ds) - 1)) * 10 + (IndexOf(ds[Len(ds)], Digits) - 1)

\* int(tok) for a token without whitespace: an optional sign, then decimal
\* digits that single underscores may separate.  ok is FALSE where int()
\* raises ValueError.
ParseInt(tok) ==
  LET signed == tok # <<>> /\ tok[1] \in {"+", "-"}
      body   == IF signed THEN Tail(tok) ELSE tok
      ok     == /\ body # <<>>
                /\ \A j \in 1..Len(body) : body[j] \in Range(Digits) \cup {"_"}
                /\ body[1] # "_" /\ body[Len(body)] # "_"
                /\ \A j \in 1..(Len(body) - 1) : ~(body[j] = "_" /\ body[j + 1] = "_")
      mag    == DigitsValue(SelectSeq(body, LAMBDA c : c # "_"))
  IN  [ok |-> ok, val |-> IF ~ok THEN 0 ELSE IF signed /\ tok[1] = "-" THEN -mag ELSE mag]

\* Clamp without the upper limit.
MutClampNoUpper(v) == Max(0, v)

\* max(0, min(255, v))
Clamp(v) == Max(0, Min(255, v))

\* ParseLine taking only lines of exactly three fields.
MutParseLineExactly3(acc, rawline) ==
  LET parts == Split(Strip(rawline))
  IN  IF Len(parts) = 3
         /\ ParseInt(parts[1]).ok /\ ParseInt(parts[2]).ok /\ ParseInt(parts[3]).ok
      THEN Append(acc, <<Clamp(ParseInt(parts[1]).val), Clamp(ParseInt(parts[2]).val),
                         Clamp(ParseInt(parts[3]).val)>>)
      ELSE acc

\* The body of the loop over the lines of the file: the colors list after
\* the line.
ParseLine(acc, rawline) ==
  LET line  == Strip(rawline)
      parts == Split(line)
  IN  IF line = <<>> THEN acc
      ELSE IF Len(parts) >= 3
      THEN LET r == ParseInt(parts[1])
               g == ParseInt(parts[2])
               b == ParseInt(parts[3])
           IN  IF r.ok /\ g.ok /\ b.ok
               THEN Append(acc, <<Clamp(r.val), Clamp(g.val), Clamp(b.val)>>)
               ELSE acc
      ELSE acc

\* parse_map_file on the lines of a file.
RECURSIVE ParseMapFile(_)
ParseMapFile(flines) ==
  IF flines = <<>> THEN <<>>
  ELSE ParseLine(ParseMapFile(SubSeq(flines, 1, Len(flines) - 1)), flines[Len(flines)])

\* ------------------------------------------------------------------------
\* sample_colors
\* ------------------------------------------------------------------------

\* (c1 + (c2 - c1) * frac) / 255.0 for one channel.
Interpolate(c1, c2, frac) ==
  FloatDiv(IF c2 >= c1 THEN FloatAdd(c1, FloatMul(frac, c2 - c1))
           ELSE FloatSub(c1, FloatMul(frac, c1 - c2)),
           255)

\* c / 255.0 for one channel.
Normalize(c) == FloatDiv(FloatOfInt(c), 255)

\* SampleFrom with the guard idx + 1 <= len(colors): the last color is
\* interpolated with the one after it.
MutSampleFromOffByOne(cs, idx_f) ==
  LET idx   == FloatToInt(idx_f)
      frac  == FloatFrac(idx_f)
      inrange == IF idx + 1 <= Len(cs) THEN idx + 1 < Len(cs) ELSE idx < Len(cs)
  IN  [idx |-> idx, frac |-> frac,
       exc |-> IF inrange THEN "none" ELSE "IndexError",
       color |-> IF inrange
                 THEN [ch \in 1..3 |->
                         Round3(Interpolate(cs[idx + 1][ch], cs[idx + 2][ch], frac))]
                 ELSE <<>>]

\* The rest of an iteration once idx_f is known: the locals idx and frac,
\* the exception an index raises, and the color appended.
SampleFrom(cs, idx_f) ==
  LET idx   == FloatToInt(idx_f)
      frac  == FloatFrac(idx_f)
      inrange == IF idx + 1 < Len(cs) THEN TRUE ELSE idx < Len(cs)
  IN  [idx |-> idx, frac |-> frac,
       exc |-> IF inrange THEN "none" ELSE "IndexError",
       color |-> IF inrange
                 THEN [ch \in 1..3 |->
                         Round3(IF idx + 1 < Len(cs)
                                THEN Interpolate(cs[idx + 1][ch], cs[idx + 2][ch], frac)
                                ELSE Normalize(cs[idx + 1][ch]))]
                 ELSE <<>>]

\* SampleAt with t = i / n.
MutSampleAtDivN(cs, n, i) ==
  SampleFrom(cs, FloatMul(FloatDiv(FloatOfInt(i), n), Len(cs) - 1))

\* SampleAt with idx_f = t * len(colors).
MutSampleAtTimesLen(cs, n, i) ==
  SampleFrom(cs, FloatMul(FloatDiv(FloatOfInt(i), n - 1), Len(cs)))

\* One iteration of the loop, for i in 0..n-1 and n > 1:
\* t = i / (n - 1); idx_f = t * (len(colors) - 1); ...
SampleAt(cs, n, i) ==
  SampleFrom(cs, FloatMul(FloatDiv(FloatOfInt(i), n - 1), Len(cs) - 1))

\* The list the loop builds from its iterations.
Collect(samples) ==
  IF \E j \in 1..Len(samples) : samples[j].exc # "none"
  THEN [exc |-> "IndexError", result |-> <<>>]
  ELSE [exc |-> "none", result |-> [j \in 1..Len(samples) |-> samples[j].color]]

\* sample_colors(colors, n) as a whole.
SampleColors(cs, n) ==
  IF cs = <<>>
  THEN [exc |-> "none", result |-> [j \in 1..n |-> [ch \in 1..3 |-> FloatOfInt(0)]]]
  ELSE IF Len(cs) = 1
  THEN [exc |-> "none", result |-> [j \in 1..n |-> [ch \in 1..3 |-> Normalize(cs[1][ch])]]]
  ELSE IF n = 1
  THEN [exc |-> "ZeroDivisionError", result |-> <<>>]
  ELSE Collect([j \in 1..n |-> SampleAt(cs, n, j - 1)])

\* ------------------------------------------------------------------------
\* name_to_rust_const
\* ------------------------------------------------------------------------

\* Path(filename).name: the last component of the path; empty components
\* and "." components are dropped.
PathName(filename) ==
  LET parts == SelectSeq(SplitBy(filename, {"/"}), LAMBDA p : p # <<".">>)
  IN  IF parts = <<>> THEN <<>> ELSE parts[Len(parts)]

\* Path(filename).stem: the name up to its last dot, unless that dot is the
\* first or the last character.
Stem(filename) ==
  LET name == PathName(filename)
      dots == {j \in 1..Len(name) : name[j] = "."}
      p    == CHOOSE j \in dots : \A m \in dots : m <= j
  IN  IF dots # {} /\ 1 < p /\ p < Len(name) THEN SubSeq(name, 1, p - 1) ELSE name

\* upper() left out.
MutUpperCharIdentity(c) == c

\* str.upper() on one ASCII character.
UpperChar(c) == IF c \in Range(Lower) THEN Upper[IndexOf(c, Lower)] ELSE c

\* re.sub(r"[^A-Z0-9]", "_", name) on one character.
SubChar(c) == IF c \in Range(Upper) \cup Range(Digits) THEN c ELSE "_"

NameToRustConst(filename) ==
  LET name == [j \in 1..Len(Stem(filename)) |-> UpperChar(Stem(filename)[j])]
  IN  <<"X", "F", "_">> \o [j \in 1..Len(name) |-> SubChar(name[j])]

\* ------------------------------------------------------------------------
\* main
\* ------------------------------------------------------------------------

\* The characters of the model in code point order.
CodePoints == <<"\t", "\n", "\r", " ", "+", "-", ".", "/">> \o Digits \o <<";">>
                \o Upper \o <<"_">> \o Lower
Ord(c) == IndexOf(c, CodePoints)

\* a < b for strings.
StrLess(a, b) ==
  \E j \in 1..(Len(a) + 1) :
     /\ j <= Len(b)
     /\ \A m \in 1..(j - 1) : a[m] = b[m]
     /\ (j = Len(a) + 1 \/ Ord(a[j]) < Ord(b[j]))

\* sorted(maps_dir.glob("*.map")): the files of the directory by name.
Sorted(files) ==
  [j \in 1..Cardinality(files) |->
     CHOOSE f \in files : Cardinality({g \in files : StrLess(g.name, f.name)}) = j - 1]

\* generate_rust_const: the emitted constant, as the name it defines and the
\* colors it lists.
GenerateRustConst(name, sampled) == [name |-> name, colors |-> sampled]

\* Number of colors main samples.
MainSamples == 5

\* TooFew with the threshold one lower.
MutTooFewOne(parsed) == Len(parsed) < 1

\* if len(colors) < 2: the file is skipped.
TooFew(parsed) == Len(parsed) < 2

\* ------------------------------------------------------------------------
\* State
\* ------------------------------------------------------------------------

VARIABLES
  pc,           \* where control is
  lines,        \* parse_map_file: the lines of the file
  pos,          \* parse_map_file: lines read so far
  colors,       \* the colors list (parse_map_file's result, sample_colors' input)
  n,            \* sample_colors: number of samples asked for
  i,            \* sample_colors: loop variable
  idx,          \* sample_colors: idx of the last iteration
  frac,         \* sample_colors: frac of the last iteration
  result,       \* sample_colors: result list
  exc,          \* the exception raised, "none" if none
  filename,     \* name_to_rust_const: argument
  const_name,   \* name_to_rust_const: value returned
  dir_exists,   \* main: maps_dir.exists()
  found,        \* main: the files of maps_dir matching *.map
  map_files,    \* main: sorted list of files
  k,            \* main: files processed so far
  consts,       \* main: consts list
  const_names   \* main: const_names list

parseVars  == <<lines, pos>>
sampleVars == <<n, i, idx, frac, result, exc>>
nameVars   == <<filename, const_name>>
mainVars   == <<dir_exists, found, map_files, k, consts, const_names>>
vars == <<pc, colors, parseVars, sampleVars, nameVars, mainVars>>

\* ------------------------------------------------------------------------
\* Inputs
\* ------------------------------------------------------------------------

MaxLines == 2
MaxLen   == 3
MaxN     == 5
MaxGrid  == 23
MaxName  == 3
MaxFiles == 3

SeqsUpTo(S, m) == UNION {[1..len -> S] : len \in 0..m}

RECURSIVE JoinWith(_, _)
JoinWith(fields, sep) ==
  IF fields = <<>> THEN <<>>
  ELSE IF Len(fields) = 1 THEN fields[1]
  ELSE fields[1] \o sep \o JoinWith(Tail(fields), sep)

Tok300 == <<"3", "0", "0">>
TokNeg == <<"-", "5">>
TokX   == <<"x">>
Tok10  == <<"1", "0">>
Tok20  == <<"2", "0">>
Tok30  == <<"3", "0">>
Tok128 == <<"1", "2", "8">>

\* Lines of three fields, each out of range high, out of range low or not
\* an integer.
ProductLines ==
  {JoinWith(<<a, b, c>>, <<" ">>) \o <<"\n">> : a, b, c \in {Tok300, TokNeg, TokX}}

\* Blank lines, short lines, trailing fields, other whitespace, other
\* spellings int() takes or refuses, a last line without newline.
OtherLines ==
  { <<"\n">>,
    <<" ", "\t", "\n">>,
    JoinWith(<<Tok10, Tok20, Tok30, <<";">>, <<"c">> >>, <<" ">>) \o <<"\n">>,
    <<"\t">> \o JoinWith(<<Tok10, <<"7">>, Tok128>>, <<" ", "\t">>) \o <<"\r", "\n">>,
    JoinWith(<<Tok300, TokNeg>>, <<" ">>) \o <<"\n">>,
    JoinWith(<<Tok300, TokNeg, Tok128>>, <<" ">>),
    JoinWith(<< <<"1", "_", "0">>, <<"+", "7">>, <<"0", "0", "7">> >>, <<" ">>) \o <<"\n">>,
    JoinWith(<< <<"1", ".", "5">>, Tok20, Tok30>>, <<" ">>) \o <<"\n">>,
    JoinWith(<<Tok10, <<"2", "_">>, Tok30>>, <<" ">>) \o <<"\n">> }

LineSet == ProductLines \cup OtherLines
FileSet == SeqsUpTo(LineSet, MaxLines)

ColorSet == { <<0, 0, 0>>, <<255, 255, 255>>, <<255, 0, 128>>, <<10, 20, 30>> }

\* A palette of len colors whose channels rise, fall and jump.
Ramp(len) ==
  [j \in 1..len |-> <<(j * 11) % 256, 255 - ((j * 7) % 256), (j * j * 5) % 256>>]

\* Arguments of sample_colors: short lists with any n, and as many samples
\* as colors on longer palettes.
SampleInputs ==
  {<<cs, m>> : cs \in SeqsUpTo(ColorSet, MaxLen), m \in 1..MaxN}
    \cup {<<Ramp(len), len>> : len \in 2..MaxGrid}

NameChars == {"a", "B", "7", "-", "_", ".", "/"}
FireStorm == <<"f", "i", "r", "e", "-", "s", "t", "o", "r", "m", ".", "m", "a", "p">>
NameInputs ==
  SeqsUpTo(NameChars, MaxName)
    \cup {FireStorm, <<"a", ".", "b", ".", "m", "a", "p">>, <<"d", "/", "x", "1">>}

DotMap == <<".", "m", "a", "p">>
MapNames == { <<"a", "-", "b">> \o DotMap, <<"a", "_", "b">> \o DotMap,
              <<"Z">> \o DotMap, <<"f", "i", "r", "e">> \o DotMap }
Black == JoinWith(<< <<"0">>, <<"0">>, <<"0">> >>, <<" ">>) \o <<"\n">>
White == JoinWith(<<Tok300, Tok300, Tok300>>, <<" ">>) \o <<"\n">>
Contents ==
  { <<>>, <<Black>>, <<Black, <<"\n">>, White>>,
    <<JoinWith(<<Tok300, TokNeg, Tok128>>, <<" ">>) \o <<"\n">>, <<"x", "\n">>,
      JoinWith(<<Tok10, Tok20, Tok30, <<";">> >>, <<" ">>) \o <<"\n">>, White>> }

\* The directories main may find: up to MaxFiles files with distinct names.
Directories ==
  UNION { [names -> Contents] : names \in {s \in SUBSET MapNames : Cardinality(s) <= MaxFiles} }

ParseIdle  == lines = <<>> /\ pos = 0
SampleIdle == /\ n = 0 /\ i = 0 /\ idx = 0 /\ frac = FloatOfInt(0)
              /\ result = <<>> /\ exc = "none"
NameIdle   == filename = <<>> /\ const_name = <<>>
MainIdle   == /\ dir_exists = FALSE /\ found = {} /\ map_files = <<>> /\ k = 0
              /\ consts = <<>> /\ const_names = <<>>

\* ------------------------------------------------------------------------
\* parse_map_file(path), one line of the file at a time
\* ------------------------------------------------------------------------

ParseInit ==
  /\ pc = "parse" /\ lines \in FileSet /\ pos = 0 /\ colors = <<>>
  /\ SampleIdle /\ NameIdle /\ MainIdle

\* for line in f: ...
ReadLine ==
  /\ pc = "parse" /\ pos < Len(lines)
  /\ colors' = ParseLine(colors, lines[pos + 1])
  /\ pos' = pos + 1
  /\ UNCHANGED <<pc, lines, sampleVars, nameVars, mainVars>>

\* return colors
ParseReturn ==
  /\ pc = "parse" /\ pos = Len(lines)
  /\ pc' = "parsed"
  /\ UNCHANGED <<colors, parseVars, sampleVars, nameVars, mainVars>>

\* ------------------------------------------------------------------------
\* sample_colors(colors, n), one loop iteration at a time
\* ------------------------------------------------------------------------

SampleInit ==
  /\ pc = "sample"
  /\ \E inp \in SampleInputs : colors = inp[1] /\ n = inp[2]
  /\ i = 0 /\ idx = 0 /\ frac = FloatOfInt(0) /\ result = <<>> /\ exc = "none"
  /\ ParseIdle /\ NameIdle /\ MainIdle

\* The two early returns and the start of the loop.
SampleEnter ==
  /\ pc = "sample"
  /\ IF Len(colors) <= 1
     THEN /\ result' = SampleColors(colors, n).result
          /\ pc' = "returned"
     ELSE /\ result' = <<>>
          /\ pc' = "loop"
  /\ i' = 0
  /\ UNCHANGED <<colors, n, idx, frac, exc, parseVars, nameVars, mainVars>>

\* for i in range(n): one iteration.
SampleIter ==
  /\ pc = "loop" /\ i < n
  /\ IF n - 1 = 0
     THEN /\ pc' = "raised" /\ exc' = "ZeroDivisionError"
          /\ UNCHANGED <<i, idx, frac, result>>
     ELSE LET s == SampleAt(colors, n, i)
          IN  /\ idx' = s.idx /\ frac' = s.frac
              /\ IF s.exc # "none"
                 THEN /\ pc' = "raised" /\ exc' = s.exc
                      /\ UNCHANGED <<i, result>>
                 ELSE /\ result' = Append(result, s.color)
                      /\ i' = i + 1
                      /\ UNCHANGED <<pc, exc>>
  /\ UNCHANGED <<colors, n, parseVars, nameVars, mainVars>>

\* return result
SampleReturn ==
  /\ pc = "loop" /\ i >= n
  /\ pc' = "returned"
  /\ UNCHANGED <<colors, sampleVars, parseVars, nameVars, mainVars>>

\* The parsed colors are handed to sample_colors; the file is closed.
CallSample ==
  /\ pc = "parsed"
  /\ \E m \in 1..MaxN : n' = m
  /\ pc' = "sample"
  /\ lines' = <<>> /\ pos' = 0
  /\ UNCHANGED <<colors, i, idx, frac, result, exc, nameVars, mainVars>>

\* ------------------------------------------------------------------------
\* name_to_rust_const(filename)
\* ------------------------------------------------------------------------

NameInit ==
  /\ pc = "name" /\ filename \in NameInputs /\ const_name = <<>>
  /\ colors = <<>> /\ ParseIdle /\ SampleIdle /\ MainIdle

NameCall ==
  /\ pc = "name"
  /\ const_name' = NameToRustConst(filename)
  /\ pc' = "returned"
  /\ UNCHANGED <<filename, colors, parseVars, sampleVars, mainVars>>

\* ------------------------------------------------------------------------
\* main()
\* ------------------------------------------------------------------------

MainInit ==
  /\ pc = "main"
  /\ dir_exists \in BOOLEAN
  /\ \E dir \in Directories :
       found = IF dir_exists
               THEN {[name |-> nm, lines |-> dir[nm]] : nm \in DOMAIN dir}
               ELSE {}
  /\ map_files = <<>> /\ k = 0 /\ consts = <<>> /\ const_names = <<>>
  /\ colors = <<>> /\ ParseIdle /\ SampleIdle /\ NameIdle

\* maps_dir does not exist: main returns.
MainNoDir ==
  /\ pc = "main" /\ ~dir_exists
  /\ pc' = "done"
  /\ UNCHANGED <<colors, parseVars, sampleVars, nameVars, mainVars>>

\* map_files = sorted(...); consts = []; const_names = []
MainStart ==
  /\ pc = "main" /\ dir_exists
  /\ map_files' = Sorted(found)
  /\ k' = 0 /\ consts' = <<>> /\ const_names' = <<>>
  /\ pc' = "files"
  /\ UNCHANGED <<colors, dir_exists, found, parseVars, sampleVars, nameVars>>

\* for map_file in map_files: one iteration.
MainIter ==
  /\ pc = "files" /\ k < Len(map_files)
  /\ LET map_file == map_files[k + 1]
         parsed   == ParseMapFile(map_file.lines)
         sampled  == SampleColors(parsed, MainSamples)
         name     == NameToRustConst(map_file.name)
     IN  /\ colors' = parsed
         /\ IF TooFew(parsed)
            THEN UNCHANGED <<consts, const_names, pc, exc>>
            ELSE IF sampled.exc # "none"
            THEN /\ pc' = "raised" /\ exc' = sampled.exc
                 /\ UNCHANGED <<consts, const_names>>
            ELSE /\ consts' = Append(consts, GenerateRustConst(name, sampled.result))
                 /\ const_names' = Append(const_names, name)
                 /\ UNCHANGED <<pc, exc>>
  /\ k' = k + 1
  /\ UNCHANGED <<dir_exists, found, map_files, n, i, idx, frac, result,
                 parseVars, nameVars>>

\* The loop is over: the constants and the names are printed.
MainOutput ==
  /\ pc = "files" /\ k = Len(map_files)
  /\ pc' = "done"
  /\ UNCHANGED <<colors, parseVars, sampleVars, nameVars, mainVars>>

\* ------------------------------------------------------------------------
\* Specifications
\* ------------------------------------------------------------------------

\* parse_map_file alone
ParseNext == ReadLine \/ ParseReturn
ParseSpec == ParseInit /\ [][ParseNext]_vars

\* sample_colors alone
SampleNext == SampleEnter \/ SampleIter \/ SampleReturn
SampleSpec == SampleInit /\ [][SampleNext]_vars

\* sample_colors(parse_map_file(path), n)
PipeNext == ReadLine \/ ParseReturn \/ CallSample \/ SampleEnter \/ SampleIter \/ SampleReturn
PipeSpec == ParseInit /\ [][PipeNext]_vars

\* name_to_rust_const alone
NameNext == NameCall
NameSpec == NameInit /\ [][NameNext]_vars

\* main
MainNext == MainNoDir \/ MainStart \/ MainIter \/ MainOutput
MainSpec == MainInit /\ [][MainNext]_vars

\* Any of the entry points
Init == ParseInit \/ SampleInit \/ NameInit \/ MainInit
Next == PipeNext \/ NameNext \/ MainNext
Spec == Init /\ [][Next]_vars

\* ------------------------------------------------------------------------
\* Properties
\* ------------------------------------------------------------------------

\* A color divided by 255 and rounded to 3 decimals, channel by channel.
Norm3(c) == [ch \in 1..3 |-> Round3(Normalize(c[ch]))]

\* x <= y for floats.
FloatLeq(x, y) ==
  LET limb(f, j) == IF j <= Len(f.fl) THEN f.fl[j] ELSE 0
      len == Max(Len(x.fl), Len(y.fl))
  IN  \/ x.ip < y.ip
      \/ /\ x.ip = y.ip
         /\ \A j \in 1..len : (\A m \in 1..(j - 1) : limb(x, m) = limb(y, m))
                                => limb(x, j) <= limb(y, j)

\* C1: for n >= 2 and a colors list of any length (0, 1 or more),
\* sample_colors raises nothing, every index it uses is in 0..len-1, and it
\* returns exactly n colors.
C1_ExactlyN ==
  n >= 2 =>
    /\ exc = "none" /\ pc # "raised"
    /\ (pc = "loop" /\ i >= 1) => idx \in 0..(Len(colors) - 1)
    /\ pc = "returned" => Len(result) = n

C1_Witness ==
  /\ pc = "returned" /\ n = MainSamples /\ Len(colors) = 3
  /\ Len(result) = MainSamples /\ idx = 2

\* C2: for n >= 2 and at least 2 colors, the first color returned is the
\* first color of the list normalized and rounded, and the last color
\* returned is the last color of the list normalized and rounded.
C2_Endpoints ==
  (pc = "returned" /\ n >= 2 /\ Len(colors) >= 2) =>
    /\ result[1] = Norm3(colors[1])
    /\ result[n] = Norm3(colors[Len(colors)])

C2_Witness ==
  /\ pc = "returned" /\ n = 2 /\ Len(colors) = 3
  /\ colors[1] # colors[2] /\ colors[3] # colors[2] /\ colors[1] # colors[3]
  /\ result = <<Norm3(colors[1]), Norm3(colors[3])>>

\* C3: for n = 1 and at least 2 colors, sample_colors raises nothing and
\* returns exactly one color, the first color of the list normalized.
C3_SingleSample ==
  (n = 1 /\ Len(colors) >= 2) =>
    /\ pc # "raised" /\ exc = "none"
    /\ pc = "returned" => result = <<Norm3(colors[1])>>

\* C4: every channel of every color sample_colors returns, whatever the
\* length of the list, is a value rounded to 3 decimals (rounding it again
\* changes nothing).
C4_Rounded ==
  pc = "returned" =>
    \A j \in 1..Len(result) : \A ch \in 1..3 : Round3(result[j][ch]) = result[j][ch]

\* A line with at least three fields of which the first three are integers.
IsColorLine(line) ==
  /\ Len(Split(line)) >= 3
  /\ \A j \in 1..3 : ParseInt(Split(line)[j]).ok

\* The color of such a line: its first three fields, each brought into
\* 0..255.
ColorOf(line) ==
  [j \in 1..3 |->
     LET v == ParseInt(Split(line)[j]).val
     IN  IF v < 0 THEN 0 ELSE IF v > 255 THEN 255 ELSE v]

ColorsOf(ls) ==
  LET good == SelectSeq(ls, IsColorLine)
  IN  [j \in 1..Len(good) |-> ColorOf(good[j])]

\* C5: after any number of lines read, and so when parse_map_file returns,
\* colors holds exactly one color per line read that has at least three
\* fields whose first three are integers, in line order, each channel
\* clamped to 0..255; every other line adds nothing and stops nothing.
C5_ParsedInOrder ==
  pc \in {"parse", "parsed"} => colors = ColorsOf(SubSeq(lines, 1, pos))

C5_Witness ==
  /\ pc = "parsed" /\ Len(lines) = 2
  /\ ~IsColorLine(lines[1]) /\ Len(Split(lines[1])) >= 3
  /\ Len(Split(lines[2])) > 3
  /\ colors = << <<10, 20, 30>> >>

\* C6: every channel of every color sample_colors produces from the colors
\* parse_map_file returned, for n >= 2, lies in [0, 1], and a color just
\* appended lies between its two neighbouring source colors, normalized and
\* rounded.
C6_UnitInterval ==
  n >= 2 =>
    /\ \A j \in 1..Len(result) : \A ch \in 1..3 :
         /\ FloatLeq(FloatOfInt(0), result[j][ch])
         /\ FloatLeq(result[j][ch], FloatOfInt(1))
    /\ (pc = "loop" /\ i >= 1) =>
         \A ch \in 1..3 :
           LET c1 == colors[idx + 1][ch]
               c2 == colors[Min(idx + 2, Len(colors))][ch]
           IN  /\ FloatLeq(Round3(Normalize(Min(c1, c2))), result[i][ch])
               /\ FloatLeq(result[i][ch], Round3(Normalize(Max(c1, c2))))

C6_Witness ==
  /\ pc = "returned" /\ n = MainSamples /\ Len(result) = MainSamples
  /\ colors = << <<255, 0, 255>>, <<0, 255, 0>> >>
  /\ result[2] = <<FloatDiv(FloatOfInt(3), 4), FloatDiv(FloatOfInt(1), 4),
                   FloatDiv(FloatOfInt(3), 4)>>

\* The files among the first k of map_files that parse to at least 2 colors.
Accepted ==
  SelectSeq(SubSeq(map_files, 1, k), LAMBDA f : Len(ParseMapFile(f.lines)) >= 2)

\* C7: in main's loop and after it, map_files is the files found in name
\* order; consts and const_names have one entry per processed file with at
\* least 2 colors, in that order, and none for a file with fewer; entry j of
\* both belongs to the same file.
C7_ListsAgree ==
  pc \in {"files", "done"} =>
    /\ Range(map_files) = found /\ Len(map_files) = Cardinality(found)
    /\ \A a, b \in 1..Len(map_files) :
         a < b => StrLess(map_files[a].name, map_files[b].name)
    /\ Len(consts) = Len(Accepted) /\ Len(const_names) = Len(Accepted)
    /\ \A j \in 1..Len(Accepted) :
         /\ const_names[j] = NameToRustConst(Accepted[j].name)
         /\ consts[j].name = const_names[j]
         /\ consts[j].colors =
              SampleColors(ParseMapFile(Accepted[j].lines), MainSamples).result

C7_Witness ==
  /\ pc = "done" /\ Len(map_files) = 3
  /\ Len(ParseMapFile(map_files[1].lines)) >= 2
  /\ Len(ParseMapFile(map_files[2].lines)) = 1
  /\ Len(ParseMapFile(map_files[3].lines)) >= 2
  /\ Len(consts) = 2 /\ Len(const_names) = 2
  /\ const_names[2] = NameToRustConst(map_files[3].name)

\* C8: the names main has put in const_names are pairwise distinct.
C8_NoDuplicateNames ==
  \A a, b \in 1..Len(const_names) : a # b => const_names[a] # const_names[b]

XfFireStorm == <<"X", "F", "_", "F", "I", "R", "E", "_", "S", "T", "O", "R", "M">>

\* C9: name_to_rust_const returns for every filename; the value is XF_
\* followed, character by character of the stem, by the character itself
\* if it is an upper-case letter or a digit, its upper case if it is a
\* lower-case letter, and an underscore otherwise.
C9_RustConstShape ==
  /\ pc = "name" => Len(NameToRustConst(filename)) >= 3
  /\ pc = "returned" =>
       /\ Len(const_name) = 3 + Len(Stem(filename))
       /\ SubSeq(const_name, 1, 3) = <<"X", "F", "_">>
       /\ \A j \in 1..Len(Stem(filename)) :
            LET c == Stem(filename)[j]
            IN  /\ const_name[3 + j] \in Range(Upper) \cup Range(Digits) \cup {"_"}
                /\ const_name[3 + j] =
                     IF c \in Range(Upper) \cup Range(Digits) THEN c
                     ELSE IF c \in Range(Lower) THEN Upper[IndexOf(c, Lower)]
                     ELSE "_"
       /\ filename = FireStorm => const_name = XfFireStorm

C9_Witness ==
  pc = "returned" /\ filename = FireStorm /\ const_name = XfFireStorm

\* A weight below 2^-40, and one above 1 - 2^-40.
NearGridLimbs == 40 \div LimbBits
AlmostZero(f) ==
  f.fl = <<>> \/ (Len(f.fl) > NearGridLimbs /\ \A j \in 1..NearGridLimbs : f.fl[j] = 0)
AlmostOne(f) ==
  Len(f.fl) >= NearGridLimbs /\ \A j \in 1..NearGridLimbs : f.fl[j] = Base - 1

\* C10 as stated: with as many samples as colors (at least 2), sample i is
\* color i normalized and rounded, taken at idx = i with weight frac = 0.
C10_Original ==
  (pc = "loop" /\ n = Len(colors) /\ n >= 2 /\ i >= 1) =>
    /\ result[i] = Norm3(colors[i])
    /\ idx = i - 1 /\ frac = FloatOfInt(0)

\* C10 amended: with as many samples as colors (at least 2), sample i is
\* color i normalized and rounded; idx_f is i up to rounding, so the sample
\* is taken at idx = i with a weight below 2^-40 or at idx = i - 1 with a
\* weight above 1 - 2^-40, and exactly at idx = i with frac = 0 when n is
\* below 23, the first n for which i / (n - 1) * (n - 1) is not i for some
\* i.  (i of the model is one more than the index of the iteration just
\* done.)
C10_IdentityUpToRounding ==
  (pc = "loop" /\ n = Len(colors) /\ n >= 2 /\ i >= 1) =>
    /\ result[i] = Norm3(colors[i])
    /\ \/ idx = i - 1 /\ AlmostZero(frac)
       \/ idx = i - 2 /\ AlmostOne(frac)
    /\ n < 23 => (idx = i - 1 /\ frac = FloatOfInt(0))

C10_Witness ==
  /\ pc = "loop" /\ n = 23 /\ Len(colors) = 23
  /\ i = 16 /\ idx = 14 /\ AlmostOne(frac)
  /\ result[16] = Norm3(colors[16]) /\ colors[16] # colors[15]

====
